---- MODULE Spec2Model ----
(***************************************************************************)
(* set.js: the SetTokenAPI validation shim, the remote SetToken it drives  *)
(* and the ContractWrapper connection cache.                               *)
(*                                                                         *)
(*   Spec      the remote SetToken under well-formed API calls             *)
(*   SpecApi   every SetTokenAPI operation under arbitrary arguments       *)
(*   SpecCache the loads of one ContractWrapper, interleaved at the await  *)
(***************************************************************************)
EXTENDS Integers, Sequences, FiniteSets, TLC

\* ------------------------------------------------------------------ bounds
NumAccounts == 2
MaxListLen == 2
MaxModuleListLen == 1
NumTasks == 2
MaxLoads == 3
MaxAdds == 2

\* --------------------------------------------------------------- addresses
\* provider.listAccounts(): the node's accounts, the first one being the
\* default signer.
AccountNames ==
  <<"0xOwner", "0xManager", "0xTestAccount", "0xRandomAccount", "0xAccount5">>

Accounts == {AccountNames[i] : i \in 1..NumAccounts}

FirstAccount == AccountNames[1]

DeployManager == AccountNames[2]

SetAddress == "0xSetToken"

TokenAddress == "0xToken"

SecondTokenAddress == "0xToken2"

ThirdTokenAddress == "0xToken3"

Malformed == "0xZZ-not-an-address"

Undefined == "undefined"

\* What assert.schema.isValidAddress accepts.
IsValidAddress(a) == a \in Accounts \cup {SetAddress, TokenAddress, SecondTokenAddress, ThirdTokenAddress}

IsValidAddressList(l) == \A i \in 1..Len(l) : IsValidAddress(l[i])

SchemaError(name) == "Expected " \o name \o " to conform to schema /Address."

EmptyComponentsError == "Component addresses must contain at least one component."

EqualLengthError == "Component addresses and units must be equal length."

\* getSigner(callerAddress) were the caller taken as given, none for none.
ResolveCallerAsGiven(callerAddress) == callerAddress

\* getSigner(callerAddress): the first account of the node when none is given.
ResolveCaller(callerAddress) ==
  IF callerAddress = Undefined THEN FirstAccount ELSE callerAddress

\* The ContractWrapper instances of the process.
Wrappers == {"contracts1", "contracts2"}

\* One contract as two strings, checksummed and lower case.
ContractAddresses == {"0xC0DE", "0xc0de"}

\* ------------------------------------------------------------------- state
VARIABLES
  moduleStates,       \* SetToken.moduleStates: account -> NONE | PENDING | INITIALIZED
  modules,            \* SetToken.getModules(): the initialized modules, in order
  manager,            \* SetToken.manager()
  isLocked,           \* SetToken.isLocked()
  controllerModules,  \* the modules enabled on the Controller
  last,               \* the last API operation: its arguments, outcome, remote calls
  cache,              \* ContractWrapper.cache, per instance: cacheKey -> handle
  tasks,              \* the load calls in flight, suspended at their await
  created,            \* the connect calls made: the instance, the handle constructed
  returned,           \* the loads that returned: arguments, handle, cache size seen
  loads,              \* the number of load calls made
  addedModules,       \* history: the modules a successful addModule has added
  positions,          \* SetToken.getPositions(): the positions of the Set, in order
  deployed,           \* history: the components and units the Set was deployed with
  controller,         \* the Controller of the ControllerWrapper: its four lists
  failing,            \* the remote calls the provider rejects for now
  quoter              \* the trade-quote aggregator: its requests, responses, quote

vars ==
  <<moduleStates, modules, manager, isLocked, controllerModules, last,
    cache, tasks, created, returned, loads, addedModules, positions, deployed,
    controller, failing, quoter>>

remote == <<moduleStates, modules, manager, isLocked, controllerModules>>

cacheVars == <<cache, tasks, created, returned, loads>>

ModuleStateValues == {"NONE", "PENDING", "INITIALIZED"}

\* The remote state a failed call must leave alone.
Snapshot ==
  [moduleStates |-> moduleStates, modules |-> modules, manager |-> manager,
   positions |-> positions]

NoOp ==
  [op |-> "none", stage |-> "none", error |-> "", calls |-> 0, malformed |-> FALSE,
   module |-> Undefined, caller |-> Undefined, ret |-> <<>>,
   nAddresses |-> 0, nUnits |-> 0, args |-> <<>>, pre |-> <<>>]

\* An operation stopped by an assertion, before any remote call.
Rejected(op, message, malformed) ==
  [NoOp EXCEPT !.op = op, !.stage = "validation", !.error = message,
               !.malformed = malformed, !.pre = Snapshot]

\* What the provider throws for a call it rejects.
ProviderError == "provider error"

\* The outcome of the remote call named call, which answers ret unless the
\* provider rejects it.
Remote(call, ret) ==
  IF call \in failing THEN [error |-> ProviderError, ret |-> <<>>]
  ELSE [error |-> "", ret |-> ret]

\* An operation that issued its one remote call and handed on what came of it:
\* ret, or the error thrown.
Returned(op, ret, malformed) ==
  [NoOp EXCEPT !.op = op, !.stage = "sent", !.calls = 1,
               !.error = Remote(op, ret).error, !.ret = Remote(op, ret).ret,
               !.malformed = malformed, !.pre = Snapshot]

\* Sequences over S of length at most n.
SeqsUpTo(S, n) == UNION {[1..k -> S] : k \in 0..n}

DistinctSeqsUpTo(S, n) ==
  {s \in SeqsUpTo(S, n) : \A i, j \in 1..Len(s) : i # j => s[i] # s[j]}

\* controller.initialize([], [], [], []): no factory, module, resource or Set.
InitialController ==
  [factories |-> <<>>, modules |-> <<>>, resources |-> <<>>, sets |-> <<>>,
   resourceId |-> <<>>]

\* The aggregator before a quote is asked for.
QuoterIdle ==
  [pc |-> "idle", env |-> <<>>, pending |-> {}, arrived |-> <<>>,
   responses |-> <<>>, quote |-> <<>>]

\* A task that is in no load call.
Idle == [pc |-> "idle"]

CacheInit ==
  /\ cache = [w \in Wrappers |-> <<>>]
  /\ tasks = [t \in 1..NumTasks |-> Idle]
  /\ created = {}
  /\ returned = {}
  /\ loads = 0

\* The module of a default position.
ZeroAddress == "0x0000"

DeployComponents == <<TokenAddress, SecondTokenAddress>>

\* ether(1), ether(2)
DeployUnits == <<1, 2>>

\* The positions the SetToken constructor makes of its components and units.
PositionsOf(components, units) ==
  [i \in 1..Len(components) |->
     [component |-> components[i], module |-> ZeroAddress, unit |-> units[i],
      positionState |-> "DEFAULT", data |-> "0x"]]

\* deploySetToken(components, units, ...)
DeploySet(components, units) ==
  /\ positions = PositionsOf(components, units)
  /\ deployed = [components |-> components, units |-> units]

\* deploySetToken(components, units, modules, controller, manager, name, symbol):
\* the constructor puts every listed module in PENDING.
Init ==
  /\ CacheInit
  /\ \E moduleList \in DistinctSeqsUpTo(Accounts, NumAccounts) :
       moduleStates =
         [a \in Accounts |->
            IF \E i \in 1..Len(moduleList) : moduleList[i] = a THEN "PENDING" ELSE "NONE"]
  /\ modules = <<>>
  /\ manager = DeployManager
  /\ isLocked = FALSE
  /\ controllerModules = {}
  /\ last = NoOp
  /\ addedModules = {}
  /\ controller = InitialController
  /\ failing = {}
  /\ quoter = QuoterIdle
  /\ DeploySet(DeployComponents, DeployUnits)

\* The Set deployed with the module of the first account alone, the one the
\* SetTokenAPI is constructed with as its streaming fee module.
InitApi ==
  /\ CacheInit
  /\ moduleStates = [a \in Accounts |-> IF a = FirstAccount THEN "PENDING" ELSE "NONE"]
  /\ modules = <<>>
  /\ manager = DeployManager
  /\ isLocked = FALSE
  /\ controllerModules = {}
  /\ last = NoOp
  /\ addedModules = {}
  /\ controller = InitialController
  /\ failing = {}
  /\ quoter = QuoterIdle
  /\ DeploySet(DeployComponents, DeployUnits)

\* ------------------------------------------------------ the remote SetToken
ModuleStateOf(m) == IF m \in Accounts THEN moduleStates[m] ELSE "NONE"

\* SetToken.addModule(m) sent by caller: the revert reason, "" when it goes through.
AddModuleRevert(caller, m) ==
  IF caller # manager THEN "Only manager can call"
  ELSE IF ModuleStateOf(m) # "NONE" THEN "Module must not be added"
  ELSE IF m \notin controllerModules THEN "Must be enabled on Controller"
  ELSE ""

\* SetToken.initializeModule() were the sender's state not looked at.
InitializeModuleRevertAnyState(caller) ==
  IF isLocked THEN "Only when unlocked"
  ELSE ""

\* SetToken.initializeModule() sent by caller.
InitializeModuleRevert(caller) ==
  IF isLocked THEN "Only when unlocked"
  ELSE IF ModuleStateOf(caller) # "PENDING" THEN "Module must be pending"
  ELSE ""

\* SetToken.setManager(newManager) sent by caller.
SetManagerRevert(caller) ==
  IF caller # manager THEN "Only manager can call"
  ELSE IF isLocked THEN "Only when unlocked"
  ELSE ""

\* The transaction SetTokenWrapper.addModule sends, signed by caller.
AddModuleTx(caller, m) ==
  /\ moduleStates' =
       IF AddModuleRevert(caller, m) = ""
       THEN [moduleStates EXCEPT ![m] = "PENDING"]
       ELSE moduleStates
  /\ addedModules' =
       IF AddModuleRevert(caller, m) = "" THEN addedModules \cup {m} ELSE addedModules
  /\ UNCHANGED <<modules, manager, isLocked, controllerModules, cacheVars,
                 positions, deployed, controller, failing, quoter>>

\* The transaction SetTokenWrapper.initializeModule sends, signed by caller.
InitializeModuleTx(caller) ==
  /\ IF InitializeModuleRevert(caller) = ""
     THEN /\ moduleStates' = [moduleStates EXCEPT ![caller] = "INITIALIZED"]
          /\ modules' = Append(modules, caller)
     ELSE UNCHANGED <<moduleStates, modules>>
  /\ UNCHANGED <<manager, isLocked, controllerModules, cacheVars, addedModules,
                 positions, deployed, controller, failing, quoter>>

\* The transaction SetTokenWrapper.setManager sends, signed by caller.
SetManagerTx(caller, newManager) ==
  /\ manager' = IF SetManagerRevert(caller) = "" THEN newManager ELSE manager
  /\ UNCHANGED <<moduleStates, modules, isLocked, controllerModules, cacheVars,
                 addedModules, positions, deployed, controller, failing, quoter>>

\* The outcome of an operation whose transaction was sent: err is the revert
\* reason the provider surfaced, "" for none.
Sent(op, err, m, caller) ==
  [NoOp EXCEPT !.op = op, !.stage = "sent", !.error = err, !.calls = 1, !.module = m, !.caller = caller,
               !.pre = Snapshot]

\* An operation stopped by a schema assertion on one of its addresses.
Reject(op, message) ==
  /\ last' = Rejected(op, message, TRUE)
  /\ UNCHANGED <<remote, cacheVars, addedModules, positions, deployed, controller, failing, quoter>>

Read(op, ret) ==
  /\ last' = Returned(op, ret, FALSE)
  /\ UNCHANGED <<remote, cacheVars, addedModules, positions, deployed, controller, failing, quoter>>

\* A read about module m made through the contract loaded for callerAddress.
ReadModule(op, m, callerAddress, ret) ==
  /\ last' = [Returned(op, ret, FALSE)
               EXCEPT !.module = m, !.caller = ResolveCaller(callerAddress)]
  /\ UNCHANGED <<remote, cacheVars, addedModules, positions, deployed, controller, failing, quoter>>

\* -------------------------------------------- SetTokenAPI: transactions
\* addModuleAsync were callerAddress not handed on: the default signer sends.
addModuleAsyncDefaultSigner(setAddress, moduleAddress, callerAddress) ==
  IF ~IsValidAddress(setAddress) THEN Reject("addModuleAsync", SchemaError("setAddress"))
  ELSE IF ~IsValidAddress(moduleAddress)
  THEN Reject("addModuleAsync", SchemaError("moduleAddress"))
  ELSE LET sender == ResolveCaller(Undefined) IN
       /\ AddModuleTx(sender, moduleAddress)
       /\ last' = Sent("addModuleAsync", AddModuleRevert(sender, moduleAddress),
                       moduleAddress, ResolveCaller(callerAddress))

\* addModuleAsync were setAddress and moduleAddress to change places: the
\* transaction goes to an address that is no SetToken.
addModuleAsyncSwapped(setAddress, moduleAddress, callerAddress) ==
  IF ~IsValidAddress(setAddress) THEN Reject("addModuleAsync", SchemaError("setAddress"))
  ELSE IF ~IsValidAddress(moduleAddress)
  THEN Reject("addModuleAsync", SchemaError("moduleAddress"))
  ELSE /\ last' = Sent("addModuleAsync", "call revert exception", moduleAddress,
                       ResolveCaller(callerAddress))
       /\ UNCHANGED <<remote, cacheVars, addedModules, positions, deployed, controller, failing, quoter>>

\* addModuleAsync were the assertion of its TODO made: an unapproved module is
\* stopped before the transaction.
addModuleAsyncCheckApproved(setAddress, moduleAddress, callerAddress) ==
  IF ~IsValidAddress(setAddress) THEN Reject("addModuleAsync", SchemaError("setAddress"))
  ELSE IF ~IsValidAddress(moduleAddress)
  THEN Reject("addModuleAsync", SchemaError("moduleAddress"))
  ELSE IF moduleAddress \notin controllerModules
  THEN /\ last' = [Rejected("addModuleAsync", "Module must be approved.", FALSE)
                     EXCEPT !.module = moduleAddress,
                            !.caller = ResolveCaller(callerAddress)]
       /\ UNCHANGED <<remote, cacheVars, addedModules, positions, deployed, controller, failing, quoter>>
  ELSE LET caller == ResolveCaller(callerAddress) IN
       /\ AddModuleTx(caller, moduleAddress)
       /\ last' = Sent("addModuleAsync", AddModuleRevert(caller, moduleAddress),
                       moduleAddress, caller)

addModuleAsync(setAddress, moduleAddress, callerAddress) ==
  IF ~IsValidAddress(setAddress) THEN Reject("addModuleAsync", SchemaError("setAddress"))
  ELSE IF ~IsValidAddress(moduleAddress)
  THEN Reject("addModuleAsync", SchemaError("moduleAddress"))
  ELSE LET caller == ResolveCaller(callerAddress) IN
       /\ AddModuleTx(caller, moduleAddress)
       /\ last' = Sent("addModuleAsync", AddModuleRevert(caller, moduleAddress),
                       moduleAddress, caller)

\* setManagerAsync were callerAddress not handed on: the default signer sends.
setManagerAsyncDefaultSigner(setAddress, managerAddress, callerAddress) ==
  IF ~IsValidAddress(setAddress) THEN Reject("setManagerAsync", SchemaError("setAddress"))
  ELSE IF ~IsValidAddress(managerAddress)
  THEN Reject("setManagerAsync", SchemaError("managerAddress"))
  ELSE LET sender == ResolveCaller(Undefined) IN
       /\ SetManagerTx(sender, managerAddress)
       /\ last' = Sent("setManagerAsync", SetManagerRevert(sender), managerAddress,
                       ResolveCaller(callerAddress))

setManagerAsync(setAddress, managerAddress, callerAddress) ==
  IF ~IsValidAddress(setAddress) THEN Reject("setManagerAsync", SchemaError("setAddress"))
  ELSE IF ~IsValidAddress(managerAddress)
  THEN Reject("setManagerAsync", SchemaError("managerAddress"))
  ELSE LET caller == ResolveCaller(callerAddress) IN
       /\ SetManagerTx(caller, managerAddress)
       /\ last' = Sent("setManagerAsync", SetManagerRevert(caller), managerAddress, caller)

\* initializeModuleAsync were callerAddress not handed on: the default signer
\* sends.
initializeModuleAsyncDefaultSigner(setAddress, callerAddress) ==
  IF ~IsValidAddress(setAddress)
  THEN Reject("initializeModuleAsync", SchemaError("setAddress"))
  ELSE LET sender == ResolveCaller(Undefined)
           caller == ResolveCaller(callerAddress) IN
       /\ InitializeModuleTx(sender)
       /\ last' = Sent("initializeModuleAsync", InitializeModuleRevert(sender),
                       caller, caller)

\* initializeModuleAsync were the revert caught and success reported.
initializeModuleAsyncSwallow(setAddress, callerAddress) ==
  IF ~IsValidAddress(setAddress)
  THEN Reject("initializeModuleAsync", SchemaError("setAddress"))
  ELSE LET caller == ResolveCaller(callerAddress) IN
       /\ InitializeModuleTx(caller)
       /\ last' = Sent("initializeModuleAsync", "", caller, caller)

initializeModuleAsync(setAddress, callerAddress) ==
  IF ~IsValidAddress(setAddress)
  THEN Reject("initializeModuleAsync", SchemaError("setAddress"))
  ELSE LET caller == ResolveCaller(callerAddress) IN
       /\ InitializeModuleTx(caller)
       /\ last' = Sent("initializeModuleAsync", InitializeModuleRevert(caller),
                       caller, caller)

\* --------------------------------------------------- SetTokenAPI: reads
ControllerAddress == "0xController"

getControllerAddressAsync(setAddress) ==
  IF ~IsValidAddress(setAddress)
  THEN Reject("getControllerAddressAsync", SchemaError("setAddress"))
  ELSE Read("getControllerAddressAsync", ControllerAddress)

getManagerAddressAsync(setAddress) ==
  IF ~IsValidAddress(setAddress)
  THEN Reject("getManagerAddressAsync", SchemaError("setAddress"))
  ELSE Read("getManagerAddressAsync", manager)

\* getModulesAsync were the list handed back last module first.
getModulesAsyncReversed(setAddress, callerAddress) ==
  IF ~IsValidAddress(setAddress) THEN Reject("getModulesAsync", SchemaError("setAddress"))
  ELSE ReadModule("getModulesAsync", Undefined, callerAddress,
                  [i \in 1..Len(modules) |-> modules[Len(modules) + 1 - i]])

getModulesAsync(setAddress, callerAddress) ==
  IF ~IsValidAddress(setAddress) THEN Reject("getModulesAsync", SchemaError("setAddress"))
  ELSE ReadModule("getModulesAsync", Undefined, callerAddress, modules)

getModuleStateAsync(setAddress, moduleAddress, callerAddress) ==
  IF ~IsValidAddress(setAddress)
  THEN Reject("getModuleStateAsync", SchemaError("setAddress"))
  ELSE IF ~IsValidAddress(moduleAddress)
  THEN Reject("getModuleStateAsync", SchemaError("moduleAddress"))
  ELSE ReadModule("getModuleStateAsync", moduleAddress, callerAddress,
                  ModuleStateOf(moduleAddress))

\* SetToken.isInitializedModule(m).
isInitializedModule(m) == ModuleStateOf(m) = "INITIALIZED"

\* SetToken.isPendingModule(m).
isPendingModule(m) == ModuleStateOf(m) = "PENDING"

\* isModuleEnabledAsync were it to ask whether the module is pending.
isModuleEnabledAsyncPending(setAddress, moduleAddress, callerAddress) ==
  IF ~IsValidAddress(setAddress)
  THEN Reject("isModuleEnabledAsync", SchemaError("setAddress"))
  ELSE IF ~IsValidAddress(moduleAddress)
  THEN Reject("isModuleEnabledAsync", SchemaError("moduleAddress"))
  ELSE ReadModule("isModuleEnabledAsync", moduleAddress, callerAddress,
                  isPendingModule(moduleAddress))

isModuleEnabledAsync(setAddress, moduleAddress, callerAddress) ==
  IF ~IsValidAddress(setAddress)
  THEN Reject("isModuleEnabledAsync", SchemaError("setAddress"))
  ELSE IF ~IsValidAddress(moduleAddress)
  THEN Reject("isModuleEnabledAsync", SchemaError("moduleAddress"))
  ELSE ReadModule("isModuleEnabledAsync", moduleAddress, callerAddress,
                  isInitializedModule(moduleAddress))

isModulePendingAsync(setAddress, moduleAddress, callerAddress) ==
  IF ~IsValidAddress(setAddress)
  THEN Reject("isModulePendingAsync", SchemaError("setAddress"))
  ELSE IF ~IsValidAddress(moduleAddress)
  THEN Reject("isModulePendingAsync", SchemaError("moduleAddress"))
  ELSE ReadModule("isModulePendingAsync", moduleAddress, callerAddress,
                  isPendingModule(moduleAddress))

\* getPositionsAsync were the last position left out of what it returns.
getPositionsAsyncShort(setAddress, callerAddress) ==
  IF ~IsValidAddress(setAddress) THEN Reject("getPositionsAsync", SchemaError("setAddress"))
  ELSE ReadModule("getPositionsAsync", Undefined, callerAddress,
                  SubSeq(positions, 1, Len(positions) - 1))

getPositionsAsync(setAddress, callerAddress) ==
  IF ~IsValidAddress(setAddress) THEN Reject("getPositionsAsync", SchemaError("setAddress"))
  ELSE ReadModule("getPositionsAsync", Undefined, callerAddress, positions)

\* ------------------------------------------------------- SetTokenWrapper
\* popPosition were it to take the last position off the Set, as its name says.
popPositionRemoves(setAddress) ==
  /\ last' = Returned("popPosition", positions, FALSE)
  /\ positions' = SubSeq(positions, 1, Len(positions) - 1)
  /\ UNCHANGED <<remote, cacheVars, addedModules, deployed, controller, failing, quoter>>

\* SetTokenWrapper.popPosition(setAddress): the Set contract is loaded for the
\* provider, with no signer, and its getPositions() is returned.
popPosition(setAddress) == Read("popPosition", positions)

\* ------------------------------------- SetTokenAPI: create and batch reads
\* The outcome of an operation over address lists.
ListOutcome(op, stage, err, calls, ret, malformed, nAddresses, nUnits) ==
  [NoOp EXCEPT !.op = op, !.stage = stage, !.error = err, !.calls = calls,
               !.ret = ret, !.malformed = malformed, !.nAddresses = nAddresses,
               !.nUnits = nUnits, !.pre = Snapshot]

\* createAsync were the isEqualLength assertion missing.
createAsyncNoLengthCheck(componentAddresses, units, moduleAddresses, managerAddress, callerAddress) ==
  LET bad == \/ ~IsValidAddressList(componentAddresses)
             \/ ~IsValidAddressList(moduleAddresses)
             \/ ~IsValidAddress(managerAddress)
      Stop(message) ==
        ListOutcome("createAsync", "validation", message, 0, <<>>, bad,
                    Len(componentAddresses), Len(units))
  IN /\ last' =
          IF Len(componentAddresses) = 0 THEN Stop(EmptyComponentsError)
          ELSE IF ~IsValidAddressList(componentAddresses)
          THEN Stop(SchemaError("componentAddresses"))
          ELSE IF ~IsValidAddressList(moduleAddresses)
          THEN Stop(SchemaError("moduleAddresses"))
          ELSE IF ~IsValidAddress(managerAddress) THEN Stop(SchemaError("managerAddress"))
          ELSE ListOutcome("createAsync", "sent", Remote("createAsync", "tx").error, 1,
                           Remote("createAsync", "tx").ret, bad,
                           Len(componentAddresses), Len(units))
     /\ UNCHANGED <<remote, cacheVars, addedModules, positions, deployed, controller, failing, quoter>>

\* createAsync were isEqualLength asserted before isNotEmptyArray.
createAsyncLengthFirst(componentAddresses, units, moduleAddresses, managerAddress, callerAddress) ==
  LET bad == \/ ~IsValidAddressList(componentAddresses)
             \/ ~IsValidAddressList(moduleAddresses)
             \/ ~IsValidAddress(managerAddress)
      Stop(message) ==
        ListOutcome("createAsync", "validation", message, 0, <<>>, bad,
                    Len(componentAddresses), Len(units))
  IN /\ last' =
          IF Len(componentAddresses) # Len(units) THEN Stop(EqualLengthError)
          ELSE IF Len(componentAddresses) = 0 THEN Stop(EmptyComponentsError)
          ELSE IF ~IsValidAddressList(componentAddresses)
          THEN Stop(SchemaError("componentAddresses"))
          ELSE IF ~IsValidAddressList(moduleAddresses)
          THEN Stop(SchemaError("moduleAddresses"))
          ELSE IF ~IsValidAddress(managerAddress) THEN Stop(SchemaError("managerAddress"))
          ELSE ListOutcome("createAsync", "sent", Remote("createAsync", "tx").error, 1,
                           Remote("createAsync", "tx").ret, bad,
                           Len(componentAddresses), Len(units))
     /\ UNCHANGED <<remote, cacheVars, addedModules, positions, deployed, controller, failing, quoter>>

createAsync(componentAddresses, units, moduleAddresses, managerAddress, callerAddress) ==
  LET bad == \/ ~IsValidAddressList(componentAddresses)
             \/ ~IsValidAddressList(moduleAddresses)
             \/ ~IsValidAddress(managerAddress)
      Stop(message) ==
        ListOutcome("createAsync", "validation", message, 0, <<>>, bad,
                    Len(componentAddresses), Len(units))
  IN /\ last' =
          IF Len(componentAddresses) = 0 THEN Stop(EmptyComponentsError)
          ELSE IF Len(componentAddresses) # Len(units) THEN Stop(EqualLengthError)
          ELSE IF ~IsValidAddressList(componentAddresses)
          THEN Stop(SchemaError("componentAddresses"))
          ELSE IF ~IsValidAddressList(moduleAddresses)
          THEN Stop(SchemaError("moduleAddresses"))
          ELSE IF ~IsValidAddress(managerAddress) THEN Stop(SchemaError("managerAddress"))
          ELSE ListOutcome("createAsync", "sent", Remote("createAsync", "tx").error, 1,
                           Remote("createAsync", "tx").ret, bad,
                           Len(componentAddresses), Len(units))
     /\ UNCHANGED <<remote, cacheVars, addedModules, positions, deployed, controller, failing, quoter>>

\* The address the SetTokenAPI was constructed with.
StreamingFeeModuleAddress == FirstAccount

InSeq(x, l) == \E i \in 1..Len(l) : l[i] = x

\* ProtocolViewer.getSetDetails(set, modules).
SetDetails(moduleAddresses) ==
  [manager |-> manager, modules |-> modules,
   moduleStatuses |-> [i \in 1..Len(moduleAddresses) |-> ModuleStateOf(moduleAddresses[i])],
   positions |-> positions, streamingFee |-> FALSE]

\* A remote call as issued: its name and its arguments.
RemoteCall(call, args) == [call |-> call, args |-> args]

\* fetchSetDetailsAsync were a failed batchFetchStreamingFeeInfo caught and the
\* details returned without the fee.
fetchSetDetailsAsyncWithoutFee(setTokenAddress, moduleAddresses, callerAddress) ==
  LET bad == ~IsValidAddress(setTokenAddress) \/ ~IsValidAddressList(moduleAddresses)
      setDetails == Remote("getSetDetails", SetDetails(moduleAddresses))
      streamingFeeInfo == Remote("batchFetchStreamingFeeInfo", <<TRUE>>)
      first == RemoteCall("getSetDetails", <<setTokenAddress, moduleAddresses, callerAddress>>)
      second == RemoteCall("batchFetchStreamingFeeInfo", <<<<setTokenAddress>>, callerAddress>>)
      Out(stage, err, issued, ret) ==
        [ListOutcome("fetchSetDetailsAsync", stage, err, Len(issued), ret, bad,
                     Len(moduleAddresses), 0) EXCEPT !.args = issued]
  IN /\ last' =
          IF ~IsValidAddress(setTokenAddress)
          THEN Out("validation", SchemaError("setTokenAddress"), <<>>, <<>>)
          ELSE IF ~IsValidAddressList(moduleAddresses)
          THEN Out("validation", SchemaError("moduleAddresses"), <<>>, <<>>)
          ELSE IF setDetails.error # ""
          THEN Out("sent", setDetails.error, <<first>>, <<>>)
          ELSE IF ~InSeq(StreamingFeeModuleAddress, setDetails.ret.modules)
          THEN Out("sent", "", <<first>>, setDetails.ret)
          ELSE IF streamingFeeInfo.error # ""
          THEN Out("sent", "", <<first, second>>, setDetails.ret)
          ELSE Out("sent", "", <<first, second>>,
                   [setDetails.ret EXCEPT !.streamingFee = streamingFeeInfo.ret[1]])
     /\ UNCHANGED <<remote, cacheVars, addedModules, positions, deployed, controller, failing, quoter>>

\* fetchSetDetailsAsync were the streaming fee fetched when the fee module is
\* among the moduleAddresses asked about.
fetchSetDetailsAsyncByArgument(setTokenAddress, moduleAddresses, callerAddress) ==
  LET bad == ~IsValidAddress(setTokenAddress) \/ ~IsValidAddressList(moduleAddresses)
      setDetails == Remote("getSetDetails", SetDetails(moduleAddresses))
      streamingFeeInfo == Remote("batchFetchStreamingFeeInfo", <<TRUE>>)
      first == RemoteCall("getSetDetails", <<setTokenAddress, moduleAddresses, callerAddress>>)
      second == RemoteCall("batchFetchStreamingFeeInfo", <<<<setTokenAddress>>, callerAddress>>)
      Out(stage, err, issued, ret) ==
        [ListOutcome("fetchSetDetailsAsync", stage, err, Len(issued), ret, bad,
                     Len(moduleAddresses), 0) EXCEPT !.args = issued]
  IN /\ last' =
          IF ~IsValidAddress(setTokenAddress)
          THEN Out("validation", SchemaError("setTokenAddress"), <<>>, <<>>)
          ELSE IF ~IsValidAddressList(moduleAddresses)
          THEN Out("validation", SchemaError("moduleAddresses"), <<>>, <<>>)
          ELSE IF setDetails.error # ""
          THEN Out("sent", setDetails.error, <<first>>, <<>>)
          ELSE IF ~InSeq(StreamingFeeModuleAddress, moduleAddresses)
          THEN Out("sent", "", <<first>>, setDetails.ret)
          ELSE IF streamingFeeInfo.error # ""
          THEN Out("sent", streamingFeeInfo.error, <<first, second>>, <<>>)
          ELSE Out("sent", "", <<first, second>>,
                   [setDetails.ret EXCEPT !.streamingFee = streamingFeeInfo.ret[1]])
     /\ UNCHANGED <<remote, cacheVars, addedModules, positions, deployed, controller, failing, quoter>>

fetchSetDetailsAsync(setTokenAddress, moduleAddresses, callerAddress) ==
  LET bad == ~IsValidAddress(setTokenAddress) \/ ~IsValidAddressList(moduleAddresses)
      setDetails == Remote("getSetDetails", SetDetails(moduleAddresses))
      streamingFeeInfo == Remote("batchFetchStreamingFeeInfo", <<TRUE>>)
      first == RemoteCall("getSetDetails", <<setTokenAddress, moduleAddresses, callerAddress>>)
      second == RemoteCall("batchFetchStreamingFeeInfo", <<<<setTokenAddress>>, callerAddress>>)
      Out(stage, err, issued, ret) ==
        [ListOutcome("fetchSetDetailsAsync", stage, err, Len(issued), ret, bad,
                     Len(moduleAddresses), 0) EXCEPT !.args = issued]
  IN /\ last' =
          IF ~IsValidAddress(setTokenAddress)
          THEN Out("validation", SchemaError("setTokenAddress"), <<>>, <<>>)
          ELSE IF ~IsValidAddressList(moduleAddresses)
          THEN Out("validation", SchemaError("moduleAddresses"), <<>>, <<>>)
          ELSE IF setDetails.error # ""
          THEN Out("sent", setDetails.error, <<first>>, <<>>)
          ELSE IF ~InSeq(StreamingFeeModuleAddress, setDetails.ret.modules)
          THEN Out("sent", "", <<first>>, setDetails.ret)
          ELSE IF streamingFeeInfo.error # ""
          THEN Out("sent", streamingFeeInfo.error, <<first, second>>, <<>>)
          ELSE Out("sent", "", <<first, second>>,
                   [setDetails.ret EXCEPT !.streamingFee = streamingFeeInfo.ret[1]])
     /\ UNCHANGED <<remote, cacheVars, addedModules, positions, deployed, controller, failing, quoter>>

batchFetchSetDetailsAsync(setTokenAddresses, moduleAddresses, callerAddress) ==
  LET bad == ~IsValidAddressList(setTokenAddresses) \/ ~IsValidAddressList(moduleAddresses)
      Out(stage, err, calls, ret) ==
        ListOutcome("batchFetchSetDetailsAsync", stage, err, calls, ret, bad,
                    Len(setTokenAddresses), 0)
  IN /\ last' =
          IF ~IsValidAddressList(setTokenAddresses)
          THEN Out("validation", SchemaError("setTokenAddresses"), 0, <<>>)
          ELSE IF ~IsValidAddressList(moduleAddresses)
          THEN Out("validation", SchemaError("moduleAddresses"), 0, <<>>)
          ELSE LET answer ==
                     Remote("batchFetchSetDetailsAsync",
                            [i \in 1..Len(setTokenAddresses) |-> SetDetails(moduleAddresses)])
               IN Out("sent", answer.error, 1, answer.ret)
     /\ UNCHANGED <<remote, cacheVars, addedModules, positions, deployed, controller, failing, quoter>>

\* No assertion: the list goes to ProtocolViewerWrapper.batchFetchManagers as
\* given. What the provider makes of a malformed element is its own affair.
batchFetchManagersAsync(tokenAddresses) ==
  /\ \E err \in {"", ProviderError} :
       /\ err # "" => (~IsValidAddressList(tokenAddresses)
                        \/ "batchFetchManagersAsync" \in failing)
       /\ "batchFetchManagersAsync" \in failing => err # ""
       /\ last' =
            ListOutcome("batchFetchManagersAsync", "sent", err, 1,
                        IF err = "" THEN [i \in 1..Len(tokenAddresses) |-> manager]
                        ELSE <<>>,
                        ~IsValidAddressList(tokenAddresses), Len(tokenAddresses), 0)
  /\ UNCHANGED <<remote, cacheVars, addedModules, positions, deployed, controller, failing, quoter>>

\* batchFetchBalancesOfAsync were the user handed on once, not once per token.
batchFetchBalancesOfAsyncOneOwner(tokenAddresses, userAddress, callerAddress) ==
  LET bad == ~IsValidAddress(userAddress) \/ ~IsValidAddressList(tokenAddresses)
      ownerAddresses == <<userAddress>>
      Out(stage, err, calls, ret) ==
        [ListOutcome("batchFetchBalancesOfAsync", stage, err, calls, ret, bad,
                     Len(tokenAddresses), 0) EXCEPT !.args = <<userAddress>>]
  IN /\ last' =
          IF ~IsValidAddress(userAddress)
          THEN Out("validation", SchemaError("userAddress"), 0, <<>>)
          ELSE IF ~IsValidAddressList(tokenAddresses)
          THEN Out("validation", SchemaError("tokenAddress"), 0, <<>>)
          ELSE LET answer == Remote("batchFetchBalancesOfAsync", [owners |-> ownerAddresses])
               IN Out("sent", answer.error, 1, answer.ret)
     /\ UNCHANGED <<remote, cacheVars, addedModules, positions, deployed, controller, failing, quoter>>

batchFetchBalancesOfAsync(tokenAddresses, userAddress, callerAddress) ==
  LET bad == ~IsValidAddress(userAddress) \/ ~IsValidAddressList(tokenAddresses)
      ownerAddresses == [i \in 1..Len(tokenAddresses) |-> userAddress]
      Out(stage, err, calls, ret) ==
        [ListOutcome("batchFetchBalancesOfAsync", stage, err, calls, ret, bad,
                     Len(tokenAddresses), 0) EXCEPT !.args = <<userAddress>>]
  IN /\ last' =
          IF ~IsValidAddress(userAddress)
          THEN Out("validation", SchemaError("userAddress"), 0, <<>>)
          ELSE IF ~IsValidAddressList(tokenAddresses)
          THEN Out("validation", SchemaError("tokenAddress"), 0, <<>>)
          ELSE LET answer == Remote("batchFetchBalancesOfAsync", [owners |-> ownerAddresses])
               IN Out("sent", answer.error, 1, answer.ret)
     /\ UNCHANGED <<remote, cacheVars, addedModules, positions, deployed, controller, failing, quoter>>

batchFetchAllowancesAsync(tokenAddresses, ownerAddress, spenderAddress, callerAddress) ==
  LET bad == \/ ~IsValidAddress(ownerAddress)
             \/ ~IsValidAddress(spenderAddress)
             \/ ~IsValidAddressList(tokenAddresses)
      ownerAddresses == [i \in 1..Len(tokenAddresses) |-> ownerAddress]
      spenderAddresses == [i \in 1..Len(tokenAddresses) |-> spenderAddress]
      Out(stage, err, calls, ret) ==
        [ListOutcome("batchFetchAllowancesAsync", stage, err, calls, ret, bad,
                     Len(tokenAddresses), 0)
           EXCEPT !.args = <<ownerAddress, spenderAddress>>]
  IN /\ last' =
          IF ~IsValidAddress(ownerAddress)
          THEN Out("validation", SchemaError("ownerAddress"), 0, <<>>)
          ELSE IF ~IsValidAddress(spenderAddress)
          THEN Out("validation", SchemaError("spenderAddress"), 0, <<>>)
          ELSE IF ~IsValidAddressList(tokenAddresses)
          THEN Out("validation", SchemaError("tokenAddress"), 0, <<>>)
          ELSE LET answer ==
                     Remote("batchFetchAllowancesAsync",
                            [owners |-> ownerAddresses, spenders |-> spenderAddresses])
               IN Out("sent", answer.error, 1, answer.ret)
     /\ UNCHANGED <<remote, cacheVars, addedModules, positions, deployed, controller, failing, quoter>>

\* ------------------------------------------------------- the test harness
\* controller.addModule(m), sent by the owner.
ControllerAddModule(m) ==
  /\ m \notin controllerModules
  /\ controllerModules' = controllerModules \cup {m}
  /\ last' = NoOp
  /\ UNCHANGED <<moduleStates, modules, manager, isLocked, cacheVars,
                 addedModules, positions, deployed, controller, failing, quoter>>

\* controller.removeModule(m), sent by the owner.
ControllerRemoveModule(m) ==
  /\ m \in controllerModules
  /\ controllerModules' = controllerModules \ {m}
  /\ last' = NoOp
  /\ UNCHANGED <<moduleStates, modules, manager, isLocked, cacheVars,
                 addedModules, positions, deployed, controller, failing, quoter>>

\* setToken.lock(), sent by an initialized module.
Lock(caller) ==
  /\ ModuleStateOf(caller) = "INITIALIZED"
  /\ ~isLocked
  /\ isLocked' = TRUE
  /\ last' = NoOp
  /\ UNCHANGED <<moduleStates, modules, manager, controllerModules, cacheVars,
                 addedModules, positions, deployed, controller, failing, quoter>>

CallerArgs == Accounts \cup {Undefined}

Next ==
  \/ \E m \in Accounts, c \in CallerArgs : addModuleAsync(SetAddress, m, c)
  \/ \E m \in Accounts, c \in CallerArgs : setManagerAsync(SetAddress, m, c)
  \/ \E c \in CallerArgs : initializeModuleAsync(SetAddress, c)
  \/ getManagerAddressAsync(SetAddress)
  \/ getModulesAsync(SetAddress, Undefined)
  \/ \E m \in Accounts : getModuleStateAsync(SetAddress, m, Undefined)
  \/ \E m \in Accounts : isModuleEnabledAsync(SetAddress, m, Undefined)
  \/ \E m \in Accounts : isModulePendingAsync(SetAddress, m, Undefined)
  \/ \E m \in Accounts : ControllerAddModule(m)
  \/ \E m \in Accounts : ControllerRemoveModule(m)
  \/ \E c \in Accounts : Lock(c)

Spec == Init /\ [][Next]_vars


\* ------------------------------------------- arbitrary arguments to the API
SetArgs == {SetAddress, Malformed}

ModuleArgs == Accounts \cup {Malformed}

UserArgs == {FirstAccount, Malformed}

TokenLists == SeqsUpTo({TokenAddress, Malformed}, MaxListLen)

SetLists == SeqsUpTo({SetAddress, Malformed}, MaxListLen)

ModuleLists == SeqsUpTo({StreamingFeeModuleAddress, Malformed}, MaxModuleListLen)

UnitLists == SeqsUpTo({1}, MaxListLen)

NextApi ==
  \/ \E cs \in TokenLists, us \in UnitLists, ms \in ModuleLists, a \in UserArgs :
       createAsync(cs, us, ms, a, Undefined)
  \/ \E s \in SetArgs, ms \in ModuleLists : fetchSetDetailsAsync(s, ms, Undefined)
  \/ \E ss \in SetLists, ms \in ModuleLists : batchFetchSetDetailsAsync(ss, ms, Undefined)
  \/ \E ts \in TokenLists : batchFetchManagersAsync(ts)
  \/ \E ts \in TokenLists, u \in UserArgs : batchFetchBalancesOfAsync(ts, u, Undefined)
  \/ \E ts \in TokenLists, o \in UserArgs, sp \in UserArgs :
       batchFetchAllowancesAsync(ts, o, sp, Undefined)
  \/ \E s \in SetArgs : getControllerAddressAsync(s)
  \/ \E s \in SetArgs : getManagerAddressAsync(s)
  \/ \E s \in SetArgs, c \in CallerArgs : getPositionsAsync(s, c)
  \/ \E s \in SetArgs, c \in CallerArgs : getModulesAsync(s, c)
  \/ \E s \in SetArgs, m \in ModuleArgs, c \in CallerArgs : getModuleStateAsync(s, m, c)
  \/ \E s \in SetArgs, m \in ModuleArgs, c \in CallerArgs : addModuleAsync(s, m, c)
  \/ \E s \in SetArgs, m \in ModuleArgs, c \in CallerArgs : setManagerAsync(s, m, c)
  \/ \E s \in SetArgs, c \in CallerArgs : initializeModuleAsync(s, c)
  \/ \E s \in SetArgs, m \in ModuleArgs, c \in CallerArgs : isModuleEnabledAsync(s, m, c)
  \/ \E s \in SetArgs, m \in ModuleArgs, c \in CallerArgs : isModulePendingAsync(s, m, c)

SpecApi == InitApi /\ [][NextApi]_vars


\* ------------------------------------------ reads of Sets however deployed
Tokens == {TokenAddress, SecondTokenAddress, ThirdTokenAddress}

UnitValues == {1, 2}

\* A Set deployed with any components, no two the same, and positive units.
InitReads ==
  /\ CacheInit
  /\ moduleStates = [a \in Accounts |-> IF a = FirstAccount THEN "PENDING" ELSE "NONE"]
  /\ modules = <<>>
  /\ manager = DeployManager
  /\ isLocked = FALSE
  /\ controllerModules = {}
  /\ last = NoOp
  /\ addedModules = {}
  /\ controller = InitialController
  /\ failing = {}
  /\ quoter = QuoterIdle
  /\ \E components \in DistinctSeqsUpTo(Tokens, MaxListLen) :
       /\ Len(components) > 0
       /\ \E units \in [1..Len(components) -> UnitValues] : DeploySet(components, units)

ValidTokenLists == SeqsUpTo({TokenAddress}, MaxListLen)

ValidSetLists == SeqsUpTo({SetAddress}, MaxListLen)

ValidModuleLists == SeqsUpTo({StreamingFeeModuleAddress}, MaxModuleListLen)

\* Every read of the SetTokenAPI with well-formed arguments, and between the
\* reads the writes that change the manager and the module states.
NextReads ==
  \/ getControllerAddressAsync(SetAddress)
  \/ getManagerAddressAsync(SetAddress)
  \/ \E c \in CallerArgs : getPositionsAsync(SetAddress, c)
  \/ popPosition(SetAddress)
  \/ \E c \in CallerArgs : getModulesAsync(SetAddress, c)
  \/ \E m \in Accounts, c \in CallerArgs : getModuleStateAsync(SetAddress, m, c)
  \/ \E m \in Accounts, c \in CallerArgs : isModuleEnabledAsync(SetAddress, m, c)
  \/ \E m \in Accounts, c \in CallerArgs : isModulePendingAsync(SetAddress, m, c)
  \/ \E ms \in ValidModuleLists : fetchSetDetailsAsync(SetAddress, ms, Undefined)
  \/ \E ss \in ValidSetLists, ms \in ValidModuleLists :
       batchFetchSetDetailsAsync(ss, ms, Undefined)
  \/ \E ts \in ValidTokenLists : batchFetchManagersAsync(ts)
  \/ \E ts \in ValidTokenLists, u \in Accounts : batchFetchBalancesOfAsync(ts, u, Undefined)
  \/ \E ts \in ValidTokenLists, o \in Accounts :
       batchFetchAllowancesAsync(ts, o, DeployManager, Undefined)
  \/ \E m \in Accounts, c \in CallerArgs : setManagerAsync(SetAddress, m, c)
  \/ \E c \in CallerArgs : initializeModuleAsync(SetAddress, c)

SpecReads == InitReads /\ [][NextReads]_vars


\* ------------------------------------------------- a provider that may fail
\* The remote calls the provider is made to reject: the two of
\* fetchSetDetailsAsync, and the one call of getModulesAsync and of
\* batchFetchBalancesOfAsync, named by their operation.
FailingCalls ==
  {"getSetDetails", "batchFetchStreamingFeeInfo", "getModulesAsync",
   "batchFetchBalancesOfAsync"}

\* The provider starts to reject the call.
ProviderFails(call) ==
  /\ call \notin failing
  /\ failing' = failing \cup {call}
  /\ last' = NoOp
  /\ UNCHANGED <<remote, cacheVars, addedModules, positions, deployed, controller, quoter>>

\* The provider answers the call again.
ProviderRecovers(call) ==
  /\ call \in failing
  /\ failing' = failing \ {call}
  /\ last' = NoOp
  /\ UNCHANGED <<remote, cacheVars, addedModules, positions, deployed, controller, quoter>>

NextFailures ==
  \/ \E call \in FailingCalls : ProviderFails(call)
  \/ \E call \in FailingCalls : ProviderRecovers(call)
  \/ \E ms \in ValidModuleLists : fetchSetDetailsAsync(SetAddress, ms, Undefined)
  \/ getModulesAsync(SetAddress, Undefined)
  \/ \E ts \in ValidTokenLists, u \in Accounts : batchFetchBalancesOfAsync(ts, u, Undefined)
  \/ \E c \in CallerArgs : initializeModuleAsync(SetAddress, c)
  \/ \E m \in Accounts, c \in CallerArgs : setManagerAsync(SetAddress, m, c)

SpecFailures == InitApi /\ [][NextFailures]_vars


\* -------------------------------------------------------- ContractWrapper
LoadMethods ==
  {"loadControllerContractAsync", "loadERC20Async", "loadBasicIssuanceModuleAsync",
   "loadTradeModuleAsync", "loadSetTokenAsync", "loadSetTokenCreatorAsync",
   "loadStreamingFeeModuleAsync", "loadProtocolViewerContractAsync"}

\* The prefix each load method gives its cache keys.
Prefix(method) ==
  CASE method = "loadControllerContractAsync" -> "Controller"
    [] method = "loadERC20Async" -> "ERC20"
    [] method = "loadBasicIssuanceModuleAsync" -> "BasicIssuance"
    [] method = "loadTradeModuleAsync" -> "TradeModule"
    [] method = "loadSetTokenAsync" -> "SetToken"
    [] method = "loadSetTokenCreatorAsync" -> "SetTokenCreator"
    [] method = "loadStreamingFeeModuleAsync" -> "StreamingFeeModule"
    [] method = "loadProtocolViewerContractAsync" -> "ProtocolViewer"

\* The factory each load method connects with.
Factory(method) ==
  CASE method = "loadControllerContractAsync" -> "ControllerFactory"
    [] method = "loadERC20Async" -> "Erc20Factory"
    [] method = "loadBasicIssuanceModuleAsync" -> "BasicIssuanceModuleFactory"
    [] method = "loadTradeModuleAsync" -> "TradeModuleFactory"
    [] method = "loadSetTokenAsync" -> "SetTokenFactory"
    [] method = "loadSetTokenCreatorAsync" -> "SetTokenCreatorFactory"
    [] method = "loadStreamingFeeModuleAsync" -> "StreamingFeeModuleFactory"
    [] method = "loadProtocolViewerContractAsync" -> "ProtocolViewerFactory"

\* The key were every load method to build it with the SetToken prefix.
CacheKeyOnePrefix(method, address, signerAddress) ==
  "SetToken" \o "_" \o address \o "_" \o signerAddress

\* `${prefix}_${address}_${await signer.getAddress()}`
CacheKey(method, address, signerAddress) ==
  Prefix(method) \o "_" \o address \o "_" \o signerAddress

\* The lookup were it never made: every load connects anew.
HitNever(task, cacheKey) == FALSE

\* The lookup were it made before the await, on the cache as it was at the call.
HitBeforeAwait(task, cacheKey) == ~task.missAtCall

\* cacheKey in this.cache, evaluated when the task resumes from its await.
Hit(task, cacheKey) == cacheKey \in DOMAIN cache[task.w]

\* this.cache[cacheKey] = contract
Store(entries, cacheKey, contract) == (cacheKey :> contract) @@ entries

\* Factory.connect(address, signer): a new object at every call, told from the
\* earlier ones connected to the same address and signer by its serial.
Connect(factory, address, signerAddress) ==
  [factory |-> factory, address |-> address, signer |-> signerAddress,
   serial |-> Cardinality({c \in created : /\ c.handle.factory = factory
                                            /\ c.handle.address = address
                                            /\ c.handle.signer = signerAddress})]

\* A load method up to its await of signer.getAddress(). missAtCall notes
\* whether the key was absent when the call was made.
Call(t, w, method, address, callerAddress) ==
  /\ tasks[t].pc = "idle"
  /\ loads < MaxLoads
  /\ tasks' =
       [tasks EXCEPT ![t] =
          [pc |-> "awaiting", w |-> w, method |-> method, address |-> address,
           callerAddress |-> callerAddress,
           missAtCall |->
             CacheKey(method, address, ResolveCaller(callerAddress)) \notin DOMAIN cache[w]]]
  /\ loads' = loads + 1
  /\ UNCHANGED <<cache, created, returned, remote, last, addedModules,
                 positions, deployed, controller, failing, quoter>>

loadControllerContractAsync(t, w, controllerAddress, signer) ==
  Call(t, w, "loadControllerContractAsync", controllerAddress, signer)

loadERC20Async(t, w, tokenAddress, callerAddress) ==
  Call(t, w, "loadERC20Async", tokenAddress, callerAddress)

loadBasicIssuanceModuleAsync(t, w, basicIssuanceModuleAddress, callerAddress) ==
  Call(t, w, "loadBasicIssuanceModuleAsync", basicIssuanceModuleAddress, callerAddress)

loadTradeModuleAsync(t, w, tradeModuleAddress, callerAddress) ==
  Call(t, w, "loadTradeModuleAsync", tradeModuleAddress, callerAddress)

loadSetTokenAsync(t, w, setTokenAddress, callerAddress) ==
  Call(t, w, "loadSetTokenAsync", setTokenAddress, callerAddress)

loadSetTokenCreatorAsync(t, w, setTokenCreatorAddress, signer) ==
  Call(t, w, "loadSetTokenCreatorAsync", setTokenCreatorAddress, signer)

loadStreamingFeeModuleAsync(t, w, streamingFeeModuleAddress, callerAddress) ==
  Call(t, w, "loadStreamingFeeModuleAsync", streamingFeeModuleAddress, callerAddress)

loadProtocolViewerContractAsync(t, w, protocolViewerAddress, signer) ==
  Call(t, w, "loadProtocolViewerContractAsync", protocolViewerAddress, signer)

\* A load method from the moment signer.getAddress() resolves to its return:
\* the key, the lookup, the connect and the write, with no await in between.
Resume(t) ==
  /\ tasks[t].pc = "awaiting"
  /\ LET task == tasks[t]
         signerAddress == ResolveCaller(task.callerAddress)
         cacheKey == CacheKey(task.method, task.address, signerAddress)
         hit == Hit(task, cacheKey)
         contract ==
           IF hit THEN cache[task.w][cacheKey]
           ELSE Connect(Factory(task.method), task.address, signerAddress)
     IN /\ cache' =
             IF hit THEN cache
             ELSE [cache EXCEPT ![task.w] = Store(@, cacheKey, contract)]
        /\ created' =
             IF hit THEN created
             ELSE created \cup {[w |-> task.w, handle |-> contract]}
        /\ returned' =
             returned \cup
               {[w |-> task.w, method |-> task.method, address |-> task.address,
                 callerAddress |-> task.callerAddress, signer |-> signerAddress,
                 handle |-> contract, hit |-> hit, missAtCall |-> task.missAtCall,
                 entries |-> Cardinality(DOMAIN cache[task.w])]}
        /\ tasks' = [tasks EXCEPT ![t] = Idle]
  /\ UNCHANGED <<loads, remote, last, addedModules, positions, deployed, controller, failing, quoter>>

\* The deployed Set that the cache and the Controller specifications leave alone.
InitCache ==
  /\ CacheInit
  /\ moduleStates = [a \in Accounts |-> "NONE"]
  /\ modules = <<>>
  /\ manager = DeployManager
  /\ isLocked = FALSE
  /\ controllerModules = {}
  /\ last = NoOp
  /\ addedModules = {}
  /\ controller = InitialController
  /\ failing = {}
  /\ quoter = QuoterIdle
  /\ DeploySet(DeployComponents, DeployUnits)

Signers == {FirstAccount, DeployManager}

SignerArgs == Signers \cup {Undefined}

Tasks == 1..NumTasks

MainWrapper == "contracts1"

\* The address the other contracts of the deployment are loaded at.
DeployedAddress == "0xC0DE"

\* loadERC20Async and loadSetTokenAsync are called with every address and every
\* caller, the other load methods at the deployed address as the manager.
NextCache ==
  \/ \E t \in Tasks : loadControllerContractAsync(t, MainWrapper, DeployedAddress, DeployManager)
  \/ \E t \in Tasks, a \in ContractAddresses, c \in SignerArgs :
       loadERC20Async(t, MainWrapper, a, c)
  \/ \E t \in Tasks : loadBasicIssuanceModuleAsync(t, MainWrapper, DeployedAddress, DeployManager)
  \/ \E t \in Tasks : loadTradeModuleAsync(t, MainWrapper, DeployedAddress, DeployManager)
  \/ \E t \in Tasks, a \in ContractAddresses, c \in SignerArgs :
       loadSetTokenAsync(t, MainWrapper, a, c)
  \/ \E t \in Tasks : loadSetTokenCreatorAsync(t, MainWrapper, DeployedAddress, DeployManager)
  \/ \E t \in Tasks : loadStreamingFeeModuleAsync(t, MainWrapper, DeployedAddress, DeployManager)
  \/ \E t \in Tasks : loadProtocolViewerContractAsync(t, MainWrapper, DeployedAddress, DeployManager)
  \/ \E t \in Tasks : Resume(t)

SpecCache == InitCache /\ [][NextCache]_vars


\* Loads through the two ContractWrapper instances of the process, each with
\* the cache its constructor made.
NextWrappers ==
  \/ \E t \in Tasks, w \in Wrappers, a \in ContractAddresses, c \in SignerArgs :
       loadERC20Async(t, w, a, c)
  \/ \E t \in Tasks, w \in Wrappers, a \in ContractAddresses, c \in SignerArgs :
       loadSetTokenAsync(t, w, a, c)
  \/ \E t \in Tasks : Resume(t)

SpecWrappers == InitCache /\ [][NextWrappers]_vars


\* ------------------------------------------- the Controller and its wrapper
\* deployController(owner)
Owner == FirstAccount

ResourceIds == {0, 1}

\* The addresses added to the Controller so far.
Added ==
  Len(controller.factories) + Len(controller.modules)
    + Len(controller.resources) + Len(controller.sets)

\* A transaction to the Controller: it changes the Controller to after unless
\* it reverts with err.
ControllerTx(op, err, address, caller, after) ==
  /\ Added < MaxAdds
  /\ controller' = IF err = "" THEN after ELSE controller
  /\ last' = Sent(op, err, address, caller)
  /\ UNCHANGED <<remote, cacheVars, addedModules, positions, deployed, failing, quoter>>

\* controller.addFactory(factory), sent by the owner.
addFactory(factory) ==
  ControllerTx("addFactory",
               IF InSeq(factory, controller.factories) THEN "Factory already exists"
               ELSE "",
               factory, Owner, [controller EXCEPT !.factories = Append(@, factory)])

\* controller.addModule(module), sent by the owner.
addModule(module) ==
  ControllerTx("addModule",
               IF InSeq(module, controller.modules) THEN "Module already exists" ELSE "",
               module, Owner, [controller EXCEPT !.modules = Append(@, module)])

\* controller.addResource(resource, id), sent by the owner.
addResource(resource, id) ==
  ControllerTx("addResource",
               IF InSeq(resource, controller.resources) THEN "Resource already exists"
               ELSE IF InSeq(id, controller.resourceId) THEN "Resource ID already exists"
               ELSE "",
               resource, Owner,
               [controller EXCEPT !.resources = Append(@, resource),
                                  !.resourceId = Append(@, id)])

\* addSet were the Set listed among the factories as well.
addSetAmongFactories(caller, setToken) ==
  ControllerTx("addSet",
               IF ~InSeq(caller, controller.factories) THEN "Only valid factories can call"
               ELSE IF InSeq(setToken, controller.sets) THEN "Set already exists"
               ELSE "",
               setToken, caller,
               [controller EXCEPT !.sets = Append(@, setToken),
                                  !.factories = Append(@, setToken)])

\* controller.addSet(setToken), sent by caller: a factory announces a Set.
addSet(caller, setToken) ==
  ControllerTx("addSet",
               IF ~InSeq(caller, controller.factories) THEN "Only valid factories can call"
               ELSE IF InSeq(setToken, controller.sets) THEN "Set already exists"
               ELSE "",
               setToken, caller, [controller EXCEPT !.sets = Append(@, setToken)])

\* ControllerWrapper.getFactories(callerAddress)
getFactories(callerAddress) ==
  ReadModule("getFactories", Undefined, callerAddress, controller.factories)

\* ControllerWrapper.getModules(callerAddress)
getModules(callerAddress) ==
  ReadModule("getModules", Undefined, callerAddress, controller.modules)

\* ControllerWrapper.getResources(callerAddress)
getResources(callerAddress) ==
  ReadModule("getResources", Undefined, callerAddress, controller.resources)

\* ControllerWrapper.getSets(callerAddress)
getSets(callerAddress) ==
  ReadModule("getSets", Undefined, callerAddress, controller.sets)

NextController ==
  \/ \E a \in Accounts : addFactory(a)
  \/ \E a \in Accounts : addModule(a)
  \/ \E a \in Accounts, id \in ResourceIds : addResource(a, id)
  \/ \E c \in Accounts, a \in Accounts : addSet(c, a)
  \/ \E c \in CallerArgs : getFactories(c)
  \/ \E c \in CallerArgs : getModules(c)
  \/ \E c \in CallerArgs : getResources(c)
  \/ \E c \in CallerArgs : getSets(c)

SpecController == InitCache /\ [][NextController]_vars


\* ---------------------------------------------------------- decimal numbers
\* Amounts and prices are beyond the machine integer: they are kept as their
\* decimal digits, most significant first, together with a number of decimals.
RECURSIVE IntToDigits(_)
IntToDigits(n) == IF n < 10 THEN <<n>> ELSE Append(IntToDigits(n \div 10), n % 10)

RECURSIVE DigitsToInt(_)
DigitsToInt(ds) ==
  IF ds = <<>> THEN 0 ELSE DigitsToInt(SubSeq(ds, 1, Len(ds) - 1)) * 10 + ds[Len(ds)]

RECURSIVE StripLeadingZeros(_)
StripLeadingZeros(ds) ==
  IF Len(ds) > 1 /\ ds[1] = 0 THEN StripLeadingZeros(Tail(ds)) ELSE ds

RECURSIVE StripTrailingZeros(_)
StripTrailingZeros(ds) ==
  IF ds # <<>> /\ ds[Len(ds)] = 0 THEN StripTrailingZeros(SubSeq(ds, 1, Len(ds) - 1))
  ELSE ds

Zeros(n) == [i \in 1..n |-> 0]

RECURSIVE MulCarry(_, _, _)
MulCarry(ds, k, carry) ==
  IF ds = <<>> THEN IntToDigits(carry)
  ELSE LET v == ds[Len(ds)] * k + carry
       IN Append(MulCarry(SubSeq(ds, 1, Len(ds) - 1), k, v \div 10), v % 10)

\* ds times the small number k.
MulSmall(ds, k) == StripLeadingZeros(MulCarry(ds, k, 0))

RECURSIVE AddOne(_)
AddOne(ds) ==
  IF ds = <<>> THEN <<1>>
  ELSE IF ds[Len(ds)] < 9 THEN [ds EXCEPT ![Len(ds)] = @ + 1]
  ELSE Append(AddOne(SubSeq(ds, 1, Len(ds) - 1)), 0)

DigitChar(d) == <<"0", "1", "2", "3", "4", "5", "6", "7", "8", "9">>[d + 1]

RECURSIVE DigitString(_)
DigitString(ds) == IF ds = <<>> THEN "" ELSE DigitChar(ds[1]) \o DigitString(Tail(ds))

\* units / 10^decimals written out in full, trailing zeros dropped.
DecimalString(units, decimals) ==
  LET padded == IF Len(units) > decimals THEN units
                ELSE Zeros(decimals + 1 - Len(units)) \o units
      whole == SubSeq(padded, 1, Len(padded) - decimals)
      fraction ==
        StripTrailingZeros(SubSeq(padded, Len(padded) - decimals + 1, Len(padded)))
  IN DigitString(whole) \o (IF fraction = <<>> THEN "" ELSE "." \o DigitString(fraction))

\* units rounded to its first k digits.
RoundTo(units, k) ==
  IF Len(units) <= k THEN units
  ELSE LET kept == SubSeq(units, 1, k)
       IN (IF units[k + 1] >= 5 THEN AddOne(kept) ELSE kept) \o Zeros(Len(units) - k)

\* n / d rounded to the nearest integer, halves away from zero (d > 0).
RoundDiv(n, d) ==
  IF n >= 0 THEN (2 * n + d) \div (2 * d) ELSE 0 - ((2 * (0 - n) + d) \div (2 * d))

\* The first digits of ds as a number, the last drop digits left off.
Leading(ds, drop) == DigitsToInt(SubSeq(ds, 1, Len(ds) - drop))

\* (a - b) / a in hundredths of a percent, of two amounts in one unit, from
\* their nine leading digits; the empty sequence when a is nothing (0 / 0 is
\* not a number).
RelativeDifference(a, b) ==
  LET longest == IF Len(a) > Len(b) THEN Len(a) ELSE Len(b)
      drop == IF longest > 9 THEN longest - 9 ELSE 0
      pad == IF longest < 9 THEN Zeros(9 - longest) ELSE <<>>
      base == Leading(a \o pad, drop) \div 10000
  IN IF base = 0 THEN <<>>
     ELSE <<RoundDiv(Leading(a \o pad, drop) - Leading(b \o pad, drop), base)>>

\* toFixed(2) of a percentage given in hundredths of a percent, and the sign.
Percent(hundredths) ==
  IF hundredths = <<>> THEN "NaN%"
  ELSE LET magnitude == IF hundredths[1] < 0 THEN 0 - hundredths[1] ELSE hundredths[1]
       IN (IF hundredths[1] < 0 THEN "-" ELSE "")
            \o DigitString(IntToDigits(magnitude \div 100)) \o "."
            \o DigitString(<<(magnitude % 100) \div 10, magnitude % 10>>) \o "%"

\* ------------------------------------------------ the trade-quote aggregator
\* The three requests of a quote: the swap quote, the gas price, and the token
\* prices with the token metadata.
Requests == {"swapQuote", "gasPrice", "prices"}

\* zeroExReponseEth: price and guaranteedPrice 0.082625382321048146.
ZeroExResponseEth ==
  [price |-> [units |-> <<8,2,6,2,5,3,8,2,3,2,1,0,4,8,1,4,6>>, decimals |-> 18],
   guaranteedPrice |-> [units |-> <<8,2,6,2,5,3,8,2,3,2,1,0,4,8,1,4,6>>, decimals |-> 18],
   buyAmount |-> <<4,1,3,1,2,6,9,1,1,6,0,5,0,7,0,3,0>>,
   sellAmount |-> <<4,9,9,9,9,9,9,9,9,9,9,9,7,9,3,7,2,9>>]

\* zeroExReponsePoly: price and guaranteedPrice 0.00002973.
ZeroExResponsePoly ==
  [price |-> [units |-> <<2,9,7,3>>, decimals |-> 8],
   guaranteedPrice |-> [units |-> <<2,9,7,3>>, decimals |-> 8],
   buyAmount |-> <<2,9,7,3>>,
   sellAmount |-> <<1,0,0,0,0,0,0>>]

\* The swap quotes a chain's provider may answer: the fixture, the fixture with
\* a guaranteed price one percent under the price, and on Ethereum a quote for
\* about ten times the amount.
SwapQuotes(chain) ==
  IF chain = "ethereum"
  THEN {ZeroExResponseEth,
        [ZeroExResponseEth EXCEPT
           !.guaranteedPrice.units = <<8,1,7,9,9,1,2,8,4,9,7,8,3,7,6,6,5>>],
        [ZeroExResponseEth EXCEPT
           !.buyAmount = <<4,1,3,1,2,6,9,1,1,6,0,5,0,7,0,3,1,2>>,
           !.sellAmount = <<4,9,9,9,9,9,9,9,9,9,9,9,7,9,3,7,2,9,0>>]}
  ELSE {ZeroExResponsePoly,
        [ZeroExResponsePoly EXCEPT !.guaranteedPrice.units = <<2,9,4,3>>]}

\* coinGeckoPricesResponseEth / Poly with the decimals of the token lists: the
\* prices in cents, of the token sold and of the token bought.
Prices(chain) ==
  IF chain = "ethereum"
  THEN [fromUsd |-> 319441, toUsd |-> 3908700, fromDecimals |-> 18, toDecimals |-> 18]
  ELSE [fromUsd |-> 101, toUsd |-> 3359500, fromDecimals |-> 6, toDecimals |-> 8]

\* gasNowResponse / maticGasStationResponse: the fast price, in gwei.
GasPrice(chain) == IF chain = "ethereum" THEN 61 ELSE 5

\* The significant digits the decimal string of a double may have when the
\* number itself has more.
DoubleDigits == {16, 17}

\* What the three endpoints will answer to one quote request, and the digits the
\* double of a long amount is written with.
Environments ==
  UNION {[chain : {chain}, swapQuote : SwapQuotes(chain), gasPrice : {GasPrice(chain)},
          prices : {Prices(chain)}, digits : DoubleDigits] :
           chain \in {"ethereum", "polygon"}}

\* A response that has not come: its fields read as nothing.
Unresolved(request) ==
  CASE request = "swapQuote" ->
         [price |-> [units |-> <<0>>, decimals |-> 0],
          guaranteedPrice |-> [units |-> <<0>>, decimals |-> 0],
          buyAmount |-> <<0>>, sellAmount |-> <<0>>]
    [] request = "gasPrice" -> 0
    [] request = "prices" ->
         [fromUsd |-> 0, toUsd |-> 0, fromDecimals |-> 0, toDecimals |-> 0]

\* amount / 10^decimals as a double, written out: the digits a double holds.
tokenDisplayAmount(amount, decimals, digits) ==
  DecimalString(RoundTo(amount, digits), decimals)

\* The USD value of an amount: price x raw amount / 10^decimals, the price in
\* cents.
UsdValue(amount, decimals, cents) ==
  [units |-> MulSmall(amount, cents), decimals |-> decimals + 2]

\* The units of value in 10^-decimals.
Aligned(value, decimals) == value.units \o Zeros(decimals - value.decimals)

\* Slippage were it the USD value bought against the USD value sold, the other
\* way round.
calculateSlippageReversed(swapQuote, prices) ==
  LET from == UsdValue(swapQuote.sellAmount, prices.fromDecimals, prices.fromUsd)
      to == UsdValue(swapQuote.buyAmount, prices.toDecimals, prices.toUsd)
      decimals == IF from.decimals > to.decimals THEN from.decimals ELSE to.decimals
  IN Percent(RelativeDifference(Aligned(to, decimals), Aligned(from, decimals)))

\* display.slippage: what of the USD value sold the USD value bought falls
\* short of.
calculateSlippage(swapQuote, prices) ==
  LET from == UsdValue(swapQuote.sellAmount, prices.fromDecimals, prices.fromUsd)
      to == UsdValue(swapQuote.buyAmount, prices.toDecimals, prices.toUsd)
      decimals == IF from.decimals > to.decimals THEN from.decimals ELSE to.decimals
  IN Percent(RelativeDifference(Aligned(from, decimals), Aligned(to, decimals)))

\* The quote computed from the three responses.
generate(responses, digits) ==
  LET swapQuote == responses["swapQuote"]
      prices == responses["prices"]
  IN [gasPrice |-> responses["gasPrice"],
      display |->
        [quoteAmount |-> DigitString(swapQuote.sellAmount),
         fromTokenDisplayAmount |->
           tokenDisplayAmount(swapQuote.sellAmount, prices.fromDecimals, digits),
         toTokenDisplayAmount |->
           tokenDisplayAmount(swapQuote.buyAmount, prices.toDecimals, digits),
         slippage |-> calculateSlippage(swapQuote, prices)]]

\* A quote is asked for: the three requests go out together.
Issue(env) ==
  /\ quoter.pc = "idle"
  /\ quoter' = [pc |-> "waiting", env |-> env, pending |-> Requests, arrived |-> <<>>,
                responses |-> [r \in Requests |-> Unresolved(r)], quote |-> <<>>]
  /\ UNCHANGED <<remote, last, cacheVars, addedModules, positions, deployed, controller,
                 failing>>

\* The response to one of the requests comes in.
Arrive(request) ==
  /\ quoter.pc = "waiting"
  /\ request \in quoter.pending
  /\ quoter' = [quoter EXCEPT !.pending = @ \ {request},
                              !.arrived = Append(@, request),
                              !.responses[request] = quoter.env[request]]
  /\ UNCHANGED <<remote, last, cacheVars, addedModules, positions, deployed, controller,
                 failing>>

\* The quote were it computed once the swap quote is in.
SwapQuoteResolved == "swapQuote" \notin quoter.pending

\* All three requests have resolved.
AllResolved == quoter.pending = {}

\* The continuation of the three requests: the quote.
Compute ==
  /\ quoter.pc = "waiting"
  /\ AllResolved
  /\ quoter' = [quoter EXCEPT !.pc = "done",
                              !.quote = generate(quoter.responses, quoter.env.digits)]
  /\ UNCHANGED <<remote, last, cacheVars, addedModules, positions, deployed, controller,
                 failing>>

NextQuote ==
  \/ \E env \in Environments : Issue(env)
  \/ \E request \in Requests : Arrive(request)
  \/ Compute

SpecQuote == InitCache /\ [][NextQuote]_vars


\* ------------------------------------------------------ the claims: cache
SameKey(r1, r2) ==
  /\ r1.method = r2.method
  /\ r1.address = r2.address
  /\ r1.signer = r2.signer

\* The connect calls an instance made for the key of a returned load.
ConnectsFor(r) ==
  {c \in created : /\ c.w = r.w
                   /\ c.handle.factory = Factory(r.method)
                   /\ c.handle.address = r.address
                   /\ c.handle.signer = r.signer}

\* C2: within a ContractWrapper, every load of a (kind, address, caller) that
\* has been loaded before returns the handle the first load returned, whatever
\* loads came in between: no entry is evicted, invalidated or overwritten.
C2_SameKeySameHandle ==
  /\ \A r1, r2 \in returned : (r1.w = r2.w /\ SameKey(r1, r2)) => r1.handle = r2.handle
  /\ \A r \in returned :
       LET cacheKey == CacheKey(r.method, r.address, r.signer) IN
       /\ cacheKey \in DOMAIN cache[r.w]
       /\ cache[r.w][cacheKey] = r.handle

\* A key loaded, then another key, then the first key again, served from the cache.
C2_Witness ==
  \E r1, r2, r3 \in returned :
    /\ r1.w = r2.w /\ r2.w = r3.w
    /\ ~r1.hit /\ r1.entries = 0
    /\ ~SameKey(r1, r2) /\ ~r2.hit /\ r2.entries = 1
    /\ SameKey(r1, r3) /\ r3.hit /\ r3.entries = 2

\* C3: two loads that differ in the load method, the contract address or the
\* resolved caller return different handles.
C3_DifferentKeyDifferentHandle ==
  \A r1, r2 \in returned : ~SameKey(r1, r2) => r1.handle # r2.handle

\* One address loaded as ERC20 and as SetToken for one caller, and one load
\* method called for two addresses and for two callers.
C3_Witness ==
  /\ \E r1, r2 \in returned :
       /\ r1.method = "loadERC20Async" /\ r2.method = "loadSetTokenAsync"
       /\ r1.address = r2.address /\ r1.signer = r2.signer
  /\ \E r1, r2 \in returned :
       /\ r1.method = r2.method
       /\ (r1.address # r2.address \/ r1.signer # r2.signer)

\* C7: however the loads of one key interleave, all of them return one handle
\* and the factory's connect runs exactly once for the key.
C7_InterleavedLoadsConnectOnce ==
  \A r \in returned :
    /\ Cardinality(ConnectsFor(r)) = 1
    /\ \A c \in ConnectsFor(r) : c.handle = r.handle

\* A load that was called while its key was absent and resumed after another
\* load of the key had stored the handle.
C7_Witness ==
  \E r1, r2 \in returned :
    /\ r1.w = r2.w /\ SameKey(r1, r2)
    /\ ~r1.hit /\ r1.missAtCall
    /\ r2.hit /\ r2.missAtCall


\* C27: the caller in a cache key is the address the signer resolves to, the
\* contract address is the string as given. A load with no callerAddress and a
\* load of the same address naming the node's first account return one handle;
\* loads of two address strings that differ, if only in case, have two keys,
\* two entries and two handles, each connected to the address as given.
C27_KeyOfResolvedSignerAndAddressAsGiven ==
  \A r1, r2 \in returned :
    (r1.w = r2.w /\ r1.method = r2.method) =>
      /\ (/\ r1.address = r2.address
          /\ r1.callerAddress = Undefined
          /\ r2.callerAddress = FirstAccount)
           => /\ r1.handle = r2.handle
              /\ r1.handle.signer = FirstAccount
      /\ r1.address # r2.address =>
           /\ r1.handle # r2.handle
           /\ r1.handle.address = r1.address
           /\ CacheKey(r1.method, r1.address, r1.signer)
                # CacheKey(r2.method, r2.address, r2.signer)
           /\ {CacheKey(r1.method, r1.address, r1.signer),
               CacheKey(r2.method, r2.address, r2.signer)} \subseteq DOMAIN cache[r1.w]

\* C27 witness: one address loaded with no callerAddress and then, from the
\* cache, for the first account by name; and the address loaded in its other
\* spelling for the same caller.
C27_Witness ==
  \E r1, r2, r3 \in returned :
    /\ r1.w = r2.w /\ r2.w = r3.w
    /\ r1.method = r2.method /\ r2.method = r3.method
    /\ r1.address = "0xC0DE" /\ r2.address = "0xC0DE" /\ r3.address = "0xc0de"
    /\ r1.callerAddress = Undefined /\ ~r1.hit
    /\ r2.callerAddress = FirstAccount /\ r2.hit
    /\ r3.callerAddress = FirstAccount /\ ~r3.hit

\* C20 as claimed: the cache is one map for the process, so that a load of a key
\* returns the handle any earlier load of the key returned, through whichever
\* ContractWrapper instance either load was made.
C20_OneCachePerProcess ==
  \A r1, r2 \in returned : SameKey(r1, r2) => r1.handle = r2.handle

\* -------------------------------------------------- the claims: SetTokenAPI
\* C1: an operation of the SetTokenAPI given a malformed address, alone or in a
\* list, is rejected, and no remote call has been issued when it is.
C1_MalformedRejectedBeforeRemote ==
  last.malformed => (last.stage = "validation" /\ last.calls = 0)

\* C6 as claimed: createAsync with lists of different lengths is rejected with
\* the equal-length message and create is not issued.
C6_UnequalLengthsEqualLengthError ==
  (last.op = "createAsync" /\ last.nAddresses # last.nUnits)
    => (last.error = EqualLengthError /\ last.calls = 0)

\* C6 as amended: createAsync with lists of different lengths is rejected before
\* create is issued, with the equal-length message when componentAddresses is
\* not empty and with the empty-list message when it is.
C6_UnequalLengthsRejected ==
  (last.op = "createAsync" /\ last.nAddresses # last.nUnits)
    => /\ last.stage = "validation"
       /\ last.calls = 0
       /\ last.error =
            IF last.nAddresses = 0 THEN EmptyComponentsError ELSE EqualLengthError

\* Two component addresses against one unit, rejected for the lengths.
C6_Witness ==
  /\ last.op = "createAsync"
  /\ last.nAddresses = 2 /\ last.nUnits = 1
  /\ last.error = EqualLengthError

\* C16: createAsync with no component address is rejected with the empty-list
\* message and create is not issued, whatever the length of units and whatever
\* the other arguments are.
C16_EmptyComponentsRejected ==
  (last.op = "createAsync" /\ last.nAddresses = 0)
    => /\ last.stage = "validation"
       /\ last.calls = 0
       /\ last.error = EmptyComponentsError

\* No component address against one unit: the lengths differ as well, and the
\* message is the one of the empty list.
C16_Witness ==
  /\ last.op = "createAsync"
  /\ last.nAddresses = 0 /\ last.nUnits = 1
  /\ last.stage = "validation" /\ last.calls = 0
  /\ last.error = EmptyComponentsError

\* The list of n elements that are all x.
Repeat(x, n) == [i \in 1..n |-> x]

\* C17: batchFetchBalancesOfAsync and batchFetchAllowancesAsync given N well-formed
\* token addresses and well-formed user, owner and spender issue one remote
\* call, whose owners are N times the given user or owner and whose spenders
\* are N times the given spender.
C17_OwnersRepeatedPerToken ==
  /\ (last.op = "batchFetchBalancesOfAsync" /\ ~last.malformed)
       => /\ last.stage = "sent" /\ last.calls = 1
          /\ last.ret.owners = Repeat(last.args[1], last.nAddresses)
  /\ (last.op = "batchFetchAllowancesAsync" /\ ~last.malformed)
       => /\ last.stage = "sent" /\ last.calls = 1
          /\ last.ret.owners = Repeat(last.args[1], last.nAddresses)
          /\ last.ret.spenders = Repeat(last.args[2], last.nAddresses)

\* Allowances of two tokens asked for an owner and a different spender.
C17_Witness ==
  /\ last.op = "batchFetchAllowancesAsync"
  /\ last.nAddresses = 2
  /\ last.args[1] # last.args[2]
  /\ last.calls = 1
  /\ Len(last.ret.owners) = 2 /\ Len(last.ret.spenders) = 2

\* ------------------------------------------------ the claims: module states
SentOp(op) == last.op = op /\ last.stage = "sent"

Unchanged == moduleStates = last.pre.moduleStates /\ modules = last.pre.modules

\* C4: after addModule(set, m) went through, m reads PENDING; after
\* initializeModule(set) sent by m went through, m reads INITIALIZED; and
\* getModuleStateAsync returns what the Set holds.
C4_AddThenInitialize ==
  /\ (SentOp("addModuleAsync") /\ last.error = "")
       => /\ last.pre.moduleStates[last.module] = "NONE"
          /\ ModuleStateOf(last.module) = "PENDING"
  /\ (SentOp("initializeModuleAsync") /\ last.error = "")
       => /\ last.pre.moduleStates[last.caller] = "PENDING"
          /\ ModuleStateOf(last.caller) = "INITIALIZED"
  /\ SentOp("getModuleStateAsync") => last.ret = ModuleStateOf(last.module)

\* A module that addModule had added has initialized itself.
C4_Witness ==
  /\ SentOp("initializeModuleAsync") /\ last.error = ""
  /\ last.caller \in addedModules
  /\ last.caller \in controllerModules

\* C5 as claimed: initializeModule sent by an address that is not PENDING fails
\* with 'Module must be pending' and changes nothing.
C5_NotPendingMustBePending ==
  (SentOp("initializeModuleAsync") /\ last.pre.moduleStates[last.caller] # "PENDING")
    => (last.error = "Module must be pending" /\ Unchanged)

\* C5 as amended: initializeModule sent by an address that is not PENDING fails
\* and changes nothing; the reason is 'Module must be pending' while the Set is
\* unlocked and 'Only when unlocked' while it is locked.
C5_NotPendingFails ==
  (SentOp("initializeModuleAsync") /\ last.pre.moduleStates[last.caller] # "PENDING")
    => /\ last.error =
            IF isLocked THEN "Only when unlocked" ELSE "Module must be pending"
       /\ Unchanged

\* An initialized module calls initializeModule again on the unlocked Set.
C5_Witness ==
  /\ SentOp("initializeModuleAsync")
  /\ last.pre.moduleStates[last.caller] = "INITIALIZED"
  /\ ~isLocked
  /\ last.error = "Module must be pending"

\* C8: addModule sent by anyone but the manager reverts with 'Only manager can
\* call' and the module's state stays as it was.
C8_OnlyManagerAdds ==
  (SentOp("addModuleAsync") /\ last.caller # last.pre.manager)
    => (last.error = "Only manager can call" /\ Unchanged)

\* A module enabled on the Controller and not yet added, added by a stranger.
C8_Witness ==
  /\ SentOp("addModuleAsync")
  /\ last.caller # manager
  /\ last.module \in controllerModules
  /\ ModuleStateOf(last.module) = "NONE"
  /\ last.error = "Only manager can call"

\* C9: addModule by the manager of a module that is PENDING or INITIALIZED
\* reverts with 'Module must not be added' and the module keeps its state.
C9_AlreadyAddedReverts ==
  (/\ SentOp("addModuleAsync")
   /\ last.caller = last.pre.manager
   /\ last.pre.moduleStates[last.module] # "NONE")
    => (last.error = "Module must not be added" /\ Unchanged)

\* The manager adds an initialized module that the Controller has enabled.
C9_Witness ==
  /\ SentOp("addModuleAsync")
  /\ last.caller = manager
  /\ last.module \in controllerModules
  /\ ModuleStateOf(last.module) = "INITIALIZED"
  /\ last.error = "Module must not be added"

C12_LockedInitializeReverts ==
  (/\ SentOp("initializeModuleAsync")
   /\ isLocked
   /\ last.pre.moduleStates[last.caller] = "PENDING")
    => /\ last.error = "Only when unlocked"
       /\ ModuleStateOf(last.caller) = "PENDING"
       /\ Unchanged

\* An initialized module has locked the Set and a PENDING one then tried to
\* initialize itself.
C12_Witness ==
  /\ SentOp("initializeModuleAsync")
  /\ isLocked
  /\ \E m \in Accounts : ModuleStateOf(m) = "INITIALIZED"
  /\ ModuleStateOf(last.caller) = "PENDING"
  /\ last.error = "Only when unlocked"

\* --------------------------------------------------- the claims: reads
\* C13: getModules returns the modules that have run initializeModule with
\* success, in the order they did: a successful initializeModule by m appends m
\* to the list, no other step changes the list, the list holds exactly the
\* INITIALIZED modules, and getModulesAsync returns it as the Set holds it.
C13_ModulesInInitializationOrder ==
  [][/\ (last'.op = "initializeModuleAsync" /\ last'.stage = "sent" /\ last'.error = "")
          => modules' = Append(modules, last'.caller)
     /\ modules' # modules
          => (last'.op = "initializeModuleAsync" /\ last'.stage = "sent" /\ last'.error = "")
     /\ {modules'[i] : i \in 1..Len(modules')}
          = {a \in Accounts : moduleStates'[a] = "INITIALIZED"}
     /\ (last'.op = "getModulesAsync" /\ last'.stage = "sent") => last'.ret = modules'
    ]_vars

\* The Set was deployed with two modules, both have initialized themselves,
\* and getModules lists the two, the one initialized first in front.
C13_Witness ==
  /\ SentOp("getModulesAsync")
  /\ Len(last.ret) = 2 /\ last.ret[1] # last.ret[2]
  /\ last.ret = modules
  /\ addedModules = {}

\* C14: getPositions of a Set deployed with components c1..cn and units u1..un
\* returns n positions in the order of deployment, the i-th with component ci,
\* unit ui, the zero address as module, the DEFAULT state and empty data,
\* whoever the caller is.
C14_PositionsAsDeployed ==
  SentOp("getPositionsAsync")
    => /\ Len(last.ret) = Len(deployed.components)
       /\ \A i \in 1..Len(last.ret) :
            /\ last.ret[i].component = deployed.components[i]
            /\ last.ret[i].unit = deployed.units[i]
            /\ last.ret[i].module = ZeroAddress
            /\ last.ret[i].positionState = "DEFAULT"
            /\ last.ret[i].data = "0x"

\* Two components of different units, read by a caller that is not the
\* default signer.
C14_Witness ==
  /\ SentOp("getPositionsAsync")
  /\ last.caller # FirstAccount
  /\ Len(last.ret) = 2
  /\ last.ret[1].unit # last.ret[2].unit
  /\ last.ret[1].component = deployed.components[1]
  /\ last.ret[2].component = deployed.components[2]

\* ------------------------------------------------------ the claims: reads
\* The operations that only read.
ReadOps ==
  {"getControllerAddressAsync", "getManagerAddressAsync", "getPositionsAsync",
   "popPosition", "getModulesAsync", "getModuleStateAsync", "isModuleEnabledAsync",
   "isModulePendingAsync", "fetchSetDetailsAsync", "batchFetchSetDetailsAsync",
   "batchFetchManagersAsync", "batchFetchBalancesOfAsync", "batchFetchAllowancesAsync"}

\* The reads of one Set whose question is the operation and one address.
SetReadOps ==
  {"getControllerAddressAsync", "getManagerAddressAsync", "getPositionsAsync",
   "popPosition", "getModulesAsync", "getModuleStateAsync", "isModuleEnabledAsync",
   "isModulePendingAsync"}

\* What a read of the positions is called.
PositionReads == {"getPositionsAsync", "popPosition"}

ListOf(op, c) ==
  CASE op \in {"addFactory", "getFactories"} -> c.factories
    [] op \in {"addModule", "getModules"} -> c.modules
    [] op \in {"addResource", "getResources"} -> c.resources
    [] op \in {"addSet", "getSets"} -> c.sets

ControllerLists(c) == <<c.factories, c.modules, c.resources, c.sets>>

\* C15: the Controller starts with four empty lists; a getter returns its list
\* and changes none; an add that goes through puts the address at the end of
\* its own list, so in front when the list was empty, and leaves the other
\* three lists alone; an add that reverts changes none.
C15_ControllerLists ==
  /\ ControllerLists(controller) = <<(<<>>), (<<>>), (<<>>), (<<>>)>>
  /\ [][/\ last'.op \in {"getFactories", "getModules", "getResources", "getSets"}
            => /\ last'.ret = ListOf(last'.op, controller)
               /\ controller' = controller
        /\ (last'.op \in {"addFactory", "addModule", "addResource", "addSet"}
              /\ last'.error = "")
            => /\ ListOf(last'.op, controller') =
                    Append(ListOf(last'.op, controller), last'.module)
               /\ \A op \in {"addFactory", "addModule", "addResource", "addSet"} :
                    op # last'.op => ListOf(op, controller') = ListOf(op, controller)
        /\ (last'.op \in {"addFactory", "addModule", "addResource", "addSet"}
              /\ last'.error # "")
            => controller' = controller
       ]_vars

\* A factory was added and has announced a Set: getSets lists the Set first,
\* getFactories the factory, and no module or resource is listed.
C15_Witness ==
  /\ last.op = "getSets"
  /\ Len(last.ret) = 1
  /\ last.ret = controller.sets
  /\ Len(controller.factories) = 1
  /\ controller.modules = <<>> /\ controller.resources = <<>>

\* ----------------------------------------------- the claims: failures
\* The remote calls the last operation issued, in order.
Issued ==
  IF last.op = "fetchSetDetailsAsync"
  THEN [i \in 1..Len(last.args) |-> last.args[i].call]
  ELSE IF last.stage = "sent" THEN <<last.op>>
  ELSE <<>>

\* C18: an operation issues each of its remote calls at most once; when the
\* provider rejects one of them the operation fails with that error and returns
\* nothing, and it fails only then or by a revert; no failed operation returns a
\* result or changes the Set. fetchSetDetailsAsync on a Set with the streaming
\* fee module fails when batchFetchStreamingFeeInfo is rejected, though
\* getSetDetails answered.
C18_FailureIsTerminal ==
  /\ last.calls = Len(Issued)
  /\ \A i, j \in 1..Len(Issued) : i # j => Issued[i] # Issued[j]
  /\ (\E i \in 1..Len(Issued) : Issued[i] \in failing)
       => (last.error = ProviderError /\ last.ret = <<>>)
  /\ \A i \in 1..Len(Issued) - 1 : Issued[i] \notin failing
  /\ last.error # ""
       => /\ last.ret = <<>>
          /\ Snapshot = last.pre
  /\ (/\ last.op = "fetchSetDetailsAsync"
      /\ InSeq(StreamingFeeModuleAddress, modules)
      /\ "getSetDetails" \notin failing
      /\ "batchFetchStreamingFeeInfo" \in failing)
       => /\ last.error = ProviderError
          /\ last.ret = <<>>
          /\ Issued = <<"getSetDetails", "batchFetchStreamingFeeInfo">>

\* getSetDetails answered with the streaming fee module among the modules, and
\* batchFetchStreamingFeeInfo was rejected: the operation failed.
C18_Witness ==
  /\ last.op = "fetchSetDetailsAsync"
  /\ last.calls = 2
  /\ "getSetDetails" \notin failing
  /\ "batchFetchStreamingFeeInfo" \in failing
  /\ last.error = ProviderError
  /\ last.ret = <<>>

\* ------------------------------------------------ the claims: trade quote
\* The slippage of the provider's own figures: (price - guaranteedPrice) / price.
ProviderSlippage(swapQuote) ==
  Percent(RelativeDifference(swapQuote.price.units, swapQuote.guaranteedPrice.units))

C22_ToTokenDisplayAmountExact ==
  quoter.pc = "done" =>
    quoter.quote.display.toTokenDisplayAmount
      = DecimalString(quoter.env.swapQuote.buyAmount, quoter.env.prices.toDecimals)

\* The set of the requests whose responses have come.
ArrivedRequests == {quoter.arrived[i] : i \in 1..Len(quoter.arrived)}

C24_StreamingFeeWhenModuleEnabled ==
  (last.op = "fetchSetDetailsAsync" /\ last.stage = "sent" /\ last.error = "") =>
    LET included == InSeq(StreamingFeeModuleAddress, last.ret.modules)
        setTokenAddress == last.args[1].args[1]
        moduleAddresses == last.args[1].args[2]
    IN /\ last.ret.modules = modules
       /\ last.ret.streamingFee = included
       /\ ~included =>
            /\ last.ret = SetDetails(moduleAddresses)
            /\ Issued = <<"getSetDetails">>
       /\ included =>
            /\ Issued = <<"getSetDetails", "batchFetchStreamingFeeInfo">>
            /\ last.args[2].args[1] = <<setTokenAddress>>
            /\ [last.ret EXCEPT !.streamingFee = FALSE] = SetDetails(moduleAddresses)

\* C24 witness: the details of a Set whose modules contain the streaming-fee
\* module were fetched, the fee module not being among the modules asked about.
C24_Witness ==
  /\ last.op = "fetchSetDetailsAsync"
  /\ last.error = ""
  /\ last.ret.streamingFee
  /\ last.args[1].args[2] = <<>>
  /\ Len(last.args) = 2

\* ------------------------------------------------ the claims: module state
\* C25: isModuleEnabledAsync answers true exactly when the module's state on the
\* Set is INITIALIZED, isModulePendingAsync exactly when it is PENDING; a module
\* for which one of them answered true is not one for which the other would.
C25_EnabledAndPendingFollowState ==
  /\ (last.op = "isModuleEnabledAsync" /\ last.stage = "sent" /\ last.error = "") =>
       /\ last.ret = (moduleStates[last.module] = "INITIALIZED")
       /\ last.ret => ~isPendingModule(last.module)
  /\ (last.op = "isModulePendingAsync" /\ last.stage = "sent" /\ last.error = "") =>
       /\ last.ret = (moduleStates[last.module] = "PENDING")
       /\ last.ret => ~isInitializedModule(last.module)

\* C25 witness: isModuleEnabledAsync was asked about a module that is pending
\* on the Set, and answered false.
C25_Witness ==
  /\ last.op = "isModuleEnabledAsync"
  /\ last.stage = "sent"
  /\ last.module \in Accounts
  /\ moduleStates[last.module] = "PENDING"
  /\ last.ret = FALSE

\* C26: whatever addModule and initializeModule calls are made, a step changes
\* a module's state on the Set only from NONE to PENDING or from PENDING to
\* INITIALIZED: never backwards, never from NONE to INITIALIZED at once.
C26_ModuleStateOnlyAdvances ==
  [][\A m \in Accounts :
       \/ moduleStates'[m] = moduleStates[m]
       \/ moduleStates[m] = "NONE" /\ moduleStates'[m] = "PENDING"
       \/ moduleStates[m] = "PENDING" /\ moduleStates'[m] = "INITIALIZED"]_vars

\* C26 witness: a module that addModule took from NONE to PENDING has been
\* initialized and is on the Set's list of modules.
C26_Witness ==
  \E m \in addedModules :
    /\ moduleStates[m] = "INITIALIZED"
    /\ InSeq(m, modules)

====
